---- MODULE Spec2Model ----
(***************************************************************************)
(* gopack: the import-identifier trie (Graph), the declaration loader      *)
(* (Config), and the resolution pipeline of main.go.                       *)
(*                                                                         *)
(* Strings are sequences of one-character strings, so that strings.Split   *)
(* is computed and not assumed.  A Graph is the set of its nodes, each     *)
(* addressed by the sequence of segment keys leading to it from            *)
(* Graph.Nodes; the nested maps of the source are the parent/child         *)
(* relation of these addresses.                                            *)
(*                                                                         *)
(* SpecGraph is the Graph under any sequence of Insert calls, Spec the     *)
(* runs of main one after the other, SpecLive one run that goes on until   *)
(* the process exits, and SpecPar two Insert calls executed statement by   *)
(* statement on a heap of Nodes.                                           *)
(***************************************************************************)
EXTENDS Integers, Sequences, FiniteSets, TLC

(* ------------------------------ bounds -------------------------------- *)

\* most segments of an import identifier that is inserted
MaxSegs == 2
\* number of Graph.Insert calls in one behaviour of SpecGraph
MaxInserts == 3
\* most activations of loadTransitiveDependencies on the stack
MaxDepth == 4

(* ------------------------------ strings ------------------------------- *)

\* segment names; a string is a sequence of characters
Segs == {<<"a">>, <<"b">>}

SegSeqs(n) == UNION {[1..k -> Segs] : k \in 1..n}

RECURSIVE Join(_)
\* the identifier written with "/" between its segments
Join(segs) ==
    IF Len(segs) = 1 THEN segs[1]
    ELSE segs[1] \o <<"/">> \o Join(Tail(segs))

\* the empty identifier and one with a trailing separator: empty segments
OddStrings == {<< >>, <<"a", "/">>}

\* index of the first separator of s, 0 when there is none
IndexSep(s) ==
    IF \E i \in 1..Len(s) : s[i] = "/"
    THEN CHOOSE i \in 1..Len(s) : s[i] = "/" /\ \A j \in 1..(i-1) : s[j] /= "/"
    ELSE 0

RECURSIVE Split(_)
\* strings.Split(s, "/"): never empty; the empty string yields one empty segment
Split(s) ==
    LET i == IndexSep(s)
    IN  IF i = 0 THEN <<s>>
        ELSE <<SubSeq(s, 1, i-1)>> \o Split(SubSeq(s, i+1, Len(s)))

IsPrefix(s, t) == Len(s) <= Len(t) /\ SubSeq(t, 1, Len(s)) = s

IsStrictPrefix(s, t) == Len(s) < Len(t) /\ IsPrefix(s, t)

(* ------------------------------- Dep ---------------------------------- *)

NoDep == [nil |-> TRUE]

NewDependency(import) ==
    [Import |-> import, Scm |-> "git", CheckoutType |-> "", fetch |-> FALSE]

(* ------------------------------ Graph --------------------------------- *)

NoNode == <<>>

NewGraph == <<>>

\* nodes[key] for the map owned by the node at address `at` (Graph.Nodes for <<>>)
HasChild(g, at, key) == Append(at, key) \in DOMAIN g

NewNode(key) == [Key |-> key, Dependency |-> NoDep, Leaf |-> FALSE]

RECURSIVE deepInsert_KeepFirst(_, _, _, _)
\* deepInsert that leaves the Dependency of an existing leaf alone
deepInsert_KeepFirst(g, at, keys, dependency) ==
    LET here == Append(at, keys[1])
        node == IF HasChild(g, at, keys[1]) THEN g[here] ELSE NewNode(keys[1])
        g1 == [p \in (DOMAIN g) \cup {here} |-> IF p = here THEN node ELSE g[p]]
        newKeys == Tail(keys)
    IN  IF Len(newKeys) = 0
        THEN IF node.Leaf THEN g1
             ELSE [g1 EXCEPT ![here].Dependency = dependency, ![here].Leaf = TRUE]
        ELSE deepInsert_KeepFirst(g1, here, newKeys, dependency)

RECURSIVE deepInsert_Fresh(_, _, _, _)
\* deepInsert that allocates the final node anew, losing the nodes below it
deepInsert_Fresh(g, at, keys, dependency) ==
    LET here == Append(at, keys[1])
        node == IF HasChild(g, at, keys[1]) THEN g[here] ELSE NewNode(keys[1])
        g1 == [p \in (DOMAIN g) \cup {here} |-> IF p = here THEN node ELSE g[p]]
        newKeys == Tail(keys)
        kept == {p \in DOMAIN g1 : ~(Len(p) > Len(here) /\ SubSeq(p, 1, Len(here)) = here)}
    IN  IF Len(newKeys) = 0
        THEN [p \in kept |->
                IF p = here
                THEN [Key |-> keys[1], Dependency |-> dependency, Leaf |-> TRUE]
                ELSE g1[p]]
        ELSE deepInsert_Fresh(g1, here, newKeys, dependency)

RECURSIVE deepInsert_DepOnPath(_, _, _, _)
\* deepInsert that hands the Dependency to every node it walks through
deepInsert_DepOnPath(g, at, keys, dependency) ==
    LET here == Append(at, keys[1])
        node == IF HasChild(g, at, keys[1]) THEN g[here] ELSE NewNode(keys[1])
        g1 == [p \in (DOMAIN g) \cup {here} |->
                  IF p = here THEN [node EXCEPT !.Dependency = dependency] ELSE g[p]]
        newKeys == Tail(keys)
    IN  IF Len(newKeys) = 0
        THEN [g1 EXCEPT ![here].Leaf = TRUE]
        ELSE deepInsert_DepOnPath(g1, here, newKeys, dependency)

RECURSIVE deepInsert_Unmark(_, _, _, _)
\* deepInsert that unmarks a leaf it walks through
deepInsert_Unmark(g, at, keys, dependency) ==
    LET here == Append(at, keys[1])
        node == IF HasChild(g, at, keys[1]) THEN g[here] ELSE NewNode(keys[1])
        g1 == [p \in (DOMAIN g) \cup {here} |-> IF p = here THEN node ELSE g[p]]
        newKeys == Tail(keys)
    IN  IF Len(newKeys) = 0
        THEN [g1 EXCEPT ![here].Dependency = dependency, ![here].Leaf = TRUE]
        ELSE deepInsert_Unmark([g1 EXCEPT ![here].Dependency = NoDep, ![here].Leaf = FALSE],
                               here, newKeys, dependency)

RECURSIVE deepInsert(_, _, _, _)
\* deepInsert(nodes, keys, dependency), `at` being the owner of `nodes`;
\* the result is the graph after the call (nodes are shared by pointer)
deepInsert(g, at, keys, dependency) ==
    LET here == Append(at, keys[1])
        node == IF HasChild(g, at, keys[1]) THEN g[here] ELSE NewNode(keys[1])
        g1 == [p \in (DOMAIN g) \cup {here} |-> IF p = here THEN node ELSE g[p]]
        newKeys == Tail(keys)
    IN  IF Len(newKeys) = 0
        THEN [g1 EXCEPT ![here].Dependency = dependency, ![here].Leaf = TRUE]
        ELSE deepInsert(g1, here, newKeys, dependency)

Insert(g, dependency) == deepInsert(g, <<>>, Split(dependency.Import), dependency)

RECURSIVE SearchFrom_Exact(_, _, _)
\* a Search that accepts a leaf only on the last segment of the query
SearchFrom_Exact(g, at, keys) ==
    IF Len(keys) = 0 THEN NoNode
    ELSE LET here == Append(at, keys[1])
         IN  IF ~HasChild(g, at, keys[1]) THEN NoNode
             ELSE IF g[here].Leaf /\ Len(keys) = 1 THEN here
             ELSE SearchFrom_Exact(g, here, Tail(keys))

RECURSIVE SearchFrom_Interior(_, _, _)
\* a Search that returns the node the query ends on, leaf or not
SearchFrom_Interior(g, at, keys) ==
    IF Len(keys) = 0 THEN NoNode
    ELSE LET here == Append(at, keys[1])
         IN  IF ~HasChild(g, at, keys[1]) THEN NoNode
             ELSE IF g[here].Leaf \/ Len(keys) = 1 THEN here
             ELSE SearchFrom_Interior(g, here, Tail(keys))

RECURSIVE SearchFrom(_, _, _)
\* the loop of Graph.Search: `at` owns the current `nodes`, keys are left to walk
SearchFrom(g, at, keys) ==
    IF Len(keys) = 0 THEN NoNode
    ELSE LET here == Append(at, keys[1])
         IN  IF ~HasChild(g, at, keys[1]) THEN NoNode
             ELSE IF g[here].Leaf THEN here
             ELSE SearchFrom(g, here, Tail(keys))

Search(g, importPath) == SearchFrom(g, <<>>, Split(importPath))

(* ------------------- declarations and the world ---------------------- *)

I_a == <<"a">>
I_ab == <<"a", "/", "b">>
I_b == <<"b">>
I_c == <<"c">>
I_d == <<"d">>

\* the table is absent from the declaration file (a nil *toml.TomlTree)
NoTable == [nil |-> TRUE, entries |-> << >>]

\* a table with its entries in the order of Keys()
Table(entries) == [nil |-> FALSE, entries |-> entries]

\* no gopack.config in the directory of a dependency
NoDecl == [none |-> TRUE]

\* one entry of a table; hasImport is whether the entry has an "import" key
Entry(k, i, s, c) ==
    [key |-> k, hasImport |-> TRUE, import |-> i, scm |-> s, checkout |-> c]

E_a == Entry("a", I_a, "git", "branch")
E_ab == Entry("ab", I_ab, "git", "commit")
E_b == Entry("b", I_b, "git", "")
E_c == Entry("c", I_c, "hg", "tag")
E_d == Entry("d", I_d, "git", "")
\* no SCM kind can be inferred
E_x == Entry("x", I_c, "", "")
\* an empty import identifier
E_y == Entry("y", << >>, "git", "")
\* no import key at all
E_n == [Entry("n", << >>, "git", "") EXCEPT !.hasImport = FALSE]

\* a declaration file: `file` names its bytes
Decl(r, m, d) == [file |-> 0, ok |-> TRUE, repo |-> r, deps |-> m, devdeps |-> d]

\* a file toml.LoadFile rejects
Malformed == [Decl(<< >>, NoTable, NoTable) EXCEPT !.ok = FALSE]

ProjectFiles == <<
    Malformed,
    Decl(<< >>, NoTable, NoTable),
    Decl(<< >>, Table(<< >>), NoTable),
    Decl(<< >>, Table(<<E_b>>), NoTable),
    Decl(<< >>, Table(<<E_a, E_b>>), NoTable),
    Decl(<< >>, Table(<<E_b>>), Table(<<E_ab, E_c>>)),
    Decl(<< >>, NoTable, Table(<<E_c>>)),
    Decl(<< >>, Table(<<E_b, E_x, E_y>>), NoTable),
    Decl(<< >>, Table(<<E_x, E_b>>), NoTable),
    Decl(<< >>, Table(<<E_n>>), NoTable),
    Decl(<< >>, Table(<<E_b, E_n>>), NoTable),
    Decl(<< >>, Table(<<E_b, E_c>>), Table(<<Entry("b2", I_b, "git", ""), Entry("c2", I_c, "hg", "")>>)),
    Decl(I_ab, Table(<<E_ab, E_b>>), NoTable),
    Decl(<< >>, Table(<<E_d, E_b>>), NoTable),
    Decl(<< >>, Table(<<E_c, E_d>>), NoTable),
    Decl(<< >>, Table(<<E_ab, E_a>>), NoTable),
    Decl(I_b, Table(<<E_c>>), NoTable)
>>

\* the declaration files the project may hold when a run starts
Decls == [i \in 1..Len(ProjectFiles) |-> [ProjectFiles[i] EXCEPT !.file = i]]

\* the gopack.config each dependency carries in its own source, if any
NestedDecl(import) ==
    CASE import = I_a -> [Decl(<< >>, Table(<<E_c, E_b>>), NoTable) EXCEPT !.file = 101]
      [] import = I_b -> [Decl(<< >>, Table(<<E_c>>), NoTable) EXCEPT !.file = 102]
      [] import = I_c -> [Decl(<< >>, NoTable, NoTable) EXCEPT !.file = 103]
      [] import = I_d -> [Decl(<< >>, Table(<<E_b, E_x>>), NoTable) EXCEPT !.file = 104]
      [] OTHER -> NoDecl

(* ------------------------------ Config -------------------------------- *)

\* md5 of the bytes of a file, cut to one byte
Md5(file) == <<(file * 37 + 11) % 256>>

HexDigit(n) ==
    <<"0", "1", "2", "3", "4", "5", "6", "7", "8", "9", "a", "b", "c", "d", "e", "f">>[n + 1]

RECURSIVE EncodeToString(_)
\* hex.EncodeToString
EncodeToString(bytes) ==
    IF Len(bytes) = 0 THEN << >>
    ELSE <<HexDigit(bytes[1] \div 16), HexDigit(bytes[1] % 16)>> \o EncodeToString(Tail(bytes))

\* the raw digest written as characters, one per byte
RawString(bytes) == [i \in 1..Len(bytes) |-> HexDigit(bytes[i] % 16)]

\* Config.checksum
checksum(decl) == EncodeToString(Md5(decl.file))

\* no marker file
NoFile == [exists |-> FALSE, data |-> << >>]

\* a marker file holding data
File(data) == [exists |-> TRUE, data |-> data]

\* Config.modifiedChecksum: ReadFile yields no bytes when it fails
modifiedChecksum(decl, mk) == ~mk.exists \/ mk.data /= checksum(decl)

(* ------------------------------- Dep ---------------------------------- *)

\* the Dep addDepsTree builds from an entry
DepOf(entry) ==
    [NewDependency(entry.import) EXCEPT !.Scm = entry.scm, !.CheckoutType = entry.checkout]

\* Dep.Validate: no error, or the one error of the first bad field
DepValidate(d) ==
    IF d.Import = << >> THEN <<[dep |-> d, field |-> "import"]>>
    ELSE IF d.Scm = "" THEN <<[dep |-> d, field |-> "scm"]>>
    ELSE << >>

\* Dep.Fetch(forceRefetch): whether the retrieval operation is invoked
Retrieves(d, forceRefetch, vend) == forceRefetch \/ d.Import \notin vend

\* the Dep after Fetch: it knows whether its source carries a declaration
Fetched(d) == [d EXCEPT !.fetch = NestedDecl(d.Import) /= NoDecl]

\* Dep.CheckoutType
CheckoutType(d) == d.CheckoutType

(* --------------------------- Dependencies ----------------------------- *)

Event(e, import, path) == [ev |-> e, import |-> import, path |-> path]

NoDeps == [nil |-> TRUE]

\* new(Dependencies) with its three slices made of length n
NewDependencies(n) ==
    [Keys |-> [i \in 1..n |-> ""],
     Imports |-> [i \in 1..n |-> << >>],
     DepList |-> [i \in 1..n |-> NoDep]]

\* what a load has done so far: the Graph, the vendor workspace, the events,
\* the Dependencies being filled and how the load ended
Acc(g, vend, lg, ds) ==
    [g |-> g, vend |-> vend, log |-> lg, deps |-> ds, res |-> "ok"]

\* len(tree.Keys()) behind the nil check of LoadDependencyModel
TableLen(t) == IF t.nil THEN 0 ELSE Len(t.entries)

RECURSIVE addEntries(_, _, _, _, _)
\* the loop of addDepsTree over depsTree.Keys(), from slot pos (0-based)
addEntries(acc, entries, modified, pos, path) ==
    IF Len(entries) = 0 THEN acc
    ELSE
    LET e == Head(entries) IN
    IF ~e.hasImport
    \* depTree.Get("import").(string) on a nil interface
    THEN [acc EXCEPT !.res = "panic"]
    ELSE
    LET d0 == DepOf(e)
        lg1 == Append(acc.log, Event("Validate", d0.Import, path))
    IN
    IF DepValidate(d0) /= << >>
    THEN [acc EXCEPT !.log = lg1, !.res = "err"]
    ELSE
    LET got == Retrieves(d0, modified, acc.vend)
        d == Fetched(d0)
        lg2 == Append(lg1, Event("Fetch", d.Import, path))
                 \o (IF got THEN <<Event("retrieve", d.Import, path)>> ELSE << >>)
        ds == [acc.deps EXCEPT !.Keys[pos + 1] = e.key,
                               !.Imports[pos + 1] = d.Import,
                               !.DepList[pos + 1] = d]
    IN  addEntries([acc EXCEPT !.g = Insert(acc.g, d),
                               !.vend = IF got THEN acc.vend \cup {d.Import} ELSE acc.vend,
                               !.log = lg2,
                               !.deps = ds],
                   Tail(entries), modified, pos + 1, path)

\* addDepsTree(deps, depsTree, modifiedChecksum, pos)
addDepsTree(acc, depsTree, modified, pos, path) ==
    IF depsTree.nil THEN acc
    ELSE addEntries(acc, depsTree.entries, modified, pos, path)

\* Config.LoadDependencyModel(importGraph); res is "nil" (no set, no error),
\* "ok" (a set), "err" (an error) or "panic"
LoadDependencyModel(decl, g, mk, vend, lg, path) ==
    LET totalDeps == TableLen(decl.deps) + TableLen(decl.devdeps)
        acc0 == Acc(g, vend, lg, NewDependencies(totalDeps))
    IN
    IF totalDeps = 0 THEN [acc0 EXCEPT !.res = "nil", !.deps = NoDeps]
    ELSE
    LET modified == modifiedChecksum(decl, mk)
        a1 == addDepsTree(acc0, decl.deps, modified, 0, path)
    IN
    IF a1.res /= "ok" THEN [a1 EXCEPT !.deps = NoDeps]
    ELSE IF decl.deps.nil
    \* len(c.DepsTree.Keys()) on the nil tree
    THEN [a1 EXCEPT !.res = "panic", !.deps = NoDeps]
    ELSE
    LET a2 == addDepsTree(a1, decl.devdeps, modified, Len(decl.deps.entries), path)
    IN  IF a2.res /= "ok" THEN [a2 EXCEPT !.deps = NoDeps] ELSE a2

\* Dep.LoadTransitiveDeps(importGraph): the declaration the dependency carries,
\* loaded on the shared Graph
LoadTransitiveDeps(d, g, mk, vend, lg, path) ==
    LET nested == NestedDecl(d.Import)
    IN  IF ~nested.ok
        THEN [Acc(g, vend, lg, NoDeps) EXCEPT !.res = "err"]
        ELSE LoadDependencyModel(nested, g, mk, vend, lg, path)

RECURSIVE Duplicates(_, _)
\* whole-set check of Dependencies.Validate: one error for every Dep whose import
\* identifier an earlier Dep of the set already has
Duplicates(list, seen) ==
    IF Len(list) = 0 THEN << >>
    ELSE (IF Head(list).Import \in seen
          THEN <<[dep |-> Head(list), field |-> "duplicate"]>> ELSE << >>)
         \o Duplicates(Tail(list), seen \cup {Head(list).Import})

RECURSIVE EachValidate(_)
EachValidate(list) ==
    IF Len(list) = 0 THEN << >>
    ELSE DepValidate(Head(list)) \o EachValidate(Tail(list))

\* Dependencies.Validate(p): the aggregated error list
DependenciesValidate(ds) == EachValidate(ds.DepList) \o Duplicates(ds.DepList, {})

(* ---------------------------- traversal ------------------------------- *)

\* one activation of loadTransitiveDependencies: VisitDeps is at Dep i of the
\* list, and the visiting routine at `phase`
Frame(list, path) == [list |-> list, i |-> 1, phase |-> "get", path |-> path]

RECURSIVE Advance(_)
\* the routine returned: VisitDeps goes to the next Dep, or returns to the caller
Advance(stk) ==
    IF Len(stk) = 0 THEN stk
    ELSE LET top == stk[Len(stk)]
         IN  IF top.i < Len(top.list)
             THEN [stk EXCEPT ![Len(stk)] = [top EXCEPT !.i = top.i + 1, !.phase = "get"]]
             ELSE Advance(SubSeq(stk, 1, Len(stk) - 1))

\* a routine that never pins the checkout
AfterGet_NoCheckout(d) == IF d.fetch THEN "load" ELSE "next"

\* what the routine does after dep.Get()
AfterGet(d) ==
    IF CheckoutType(d) /= "" THEN "checkout"
    ELSE IF d.fetch THEN "load" ELSE "next"

\* what the routine does after the checkout
AfterCheckout(d) == IF d.fetch THEN "load" ELSE "next"

Continue(stk, phase) ==
    IF phase = "next" THEN Advance(stk)
    ELSE [stk EXCEPT ![Len(stk)].phase = phase]

(* ------------------------------ state --------------------------------- *)

VARIABLES
    graph,      \* the Graph of the run
    inserted,   \* history: import identifier -> the Dep last inserted under it
    op,         \* history: the last Graph operation and the Dependency it replaced
    nIns,       \* number of Insert calls so far
    pc,         \* where the process is: "idle", a place in main, or "exit"
    decl,       \* the project's declaration file during the run
    marker,     \* content of the checksum marker file, or NoFile
    vendor,     \* import identifiers whose path exists in the vendor workspace
    deps,       \* the top-level Dependencies, or NoDeps
    stack,      \* the activations of loadTransitiveDependencies
    modified,   \* what modifiedChecksum returned to the top-level load
    log,        \* history: the events of the run, in order
    exit,       \* exit status, and how the run ended
    start,      \* history: the marker when the run started, the file of the
                \* run before if that run wrote the marker and exited 0, and
                \* whether the self link was there
    heap,       \* the Nodes allocated by step-wise Inserts: pointer -> Node
    root,       \* Graph.Nodes of the Graph built by step-wise Inserts
    proc,       \* the goroutines running Graph.Insert, each at a step of it
    fork        \* history: the Graph when two Inserts were started together,
                \* and whether the runtime stopped the program

gvars == <<graph, inserted, op, nIns>>

rvars == <<pc, decl, marker, vendor, deps, stack, modified, log, exit, start>>

pvars == <<heap, root, proc, fork>>

vars == <<graph, inserted, op, nIns, pc, decl, marker, vendor, deps, stack,
          modified, log, exit, start, heap, root, proc, fork>>

Imports == {Join(k) : k \in SegSeqs(MaxSegs)} \cup OddStrings

Queries == {Join(k) : k \in SegSeqs(MaxSegs + 1)} \cup OddStrings

GraphDeps ==
    {[NewDependency(i) EXCEPT !.CheckoutType = c] : i \in Imports, c \in {"", "branch"}}

\* the Dependency held at address p, NoDep when there is no node or it holds none
DependencyAt(g, p) == IF p \in DOMAIN g THEN g[p].Dependency ELSE NoDep

Record(f, k, v) == [x \in (DOMAIN f) \cup {k} |-> IF x = k THEN v ELSE f[x]]

\* the process has not exited
Running == [code |-> -1, how |-> "running", errs |-> 0]

\* modifiedChecksum was not called
Unset == [set |-> FALSE, val |-> FALSE]

\* the goroutines that may run Graph.Insert at the same time
Procs == {1, 2}

\* a goroutine that runs no Insert
Idle == [dep |-> NoDep, keys |-> << >>, d |-> 0, chain |-> << >>, pc |-> "idle"]

\* no two Inserts were started together
NoFork == [on |-> FALSE, base |-> NewGraph, crashed |-> FALSE]

InitGraph ==
    /\ graph = NewGraph
    /\ inserted = <<>>
    /\ op = [name |-> "none"]
    /\ nIns = 0
    /\ pc = "idle"
    /\ decl = Malformed
    /\ marker = NoFile
    /\ vendor = {}
    /\ deps = NoDeps
    /\ stack = << >>
    /\ modified = Unset
    /\ log = << >>
    /\ exit = Running
    /\ start = [marker |-> NoFile, prev |-> 0, link |-> FALSE]
    /\ heap = << >>
    /\ root = << >>
    /\ proc = [p \in Procs |-> Idle]
    /\ fork = NoFork

GraphInsert(d) ==
    /\ nIns < MaxInserts
    /\ graph' = Insert(graph, d)
    /\ inserted' = Record(inserted, d.Import, d)
    /\ op' = [name |-> "Insert", dep |-> d, old |-> DependencyAt(graph, Split(d.Import))]
    /\ nIns' = nIns + 1
    /\ UNCHANGED <<rvars, pvars>>

NextGraph == \E d \in GraphDeps : GraphInsert(d)

SpecGraph == InitGraph /\ [][NextGraph]_vars

(* ---------------------- Insert, statement by statement ---------------- *)

\* A Node on the heap has its own map Nodes, from segment to pointer; pointer
\* 0 stands for the Graph, whose map is root.

\* &Node{Key: keys[0], Nodes: make(map[string]*Node)}
HeapNode(key) == [Key |-> key, Dependency |-> NoDep, Leaf |-> FALSE, Nodes |-> << >>]

\* the map `nodes` of the activation of deepInsert at depth d of goroutine p
MapOwner(p) == IF proc[p].d = 1 THEN 0 ELSE proc[p].chain[proc[p].d - 1]

MapOf(owner) == IF owner = 0 THEN root ELSE heap[owner].Nodes

\* the identifiers two goroutines insert
ParDeps == {NewDependency(Join(k)) : k \in SegSeqs(MaxSegs)}

\* graph.Insert(dependency) is called by one goroutine alone
ParSolo(d) ==
    /\ ~fork.on /\ root = << >>
    /\ \A p \in Procs : proc[p].pc = "idle"
    /\ proc' = [proc EXCEPT ![1] = [dep |-> d, keys |-> Split(d.Import), d |-> 1,
                                    chain |-> << >>, pc |-> "lookup"]]
    /\ UNCHANGED <<heap, root, fork, gvars, rvars>>

RECURSIVE AddrsFrom(_, _, _)
\* the addresses of the nodes reached from map m, which is at address prefix
AddrsFrom(h, m, prefix) ==
    UNION { {Append(prefix, k)} \cup AddrsFrom(h, h[m[k]].Nodes, Append(prefix, k))
          : k \in DOMAIN m }

RECURSIVE PointerAt(_, _, _)
\* the pointer found by walking address addr from map m
PointerAt(h, m, addr) ==
    IF Len(addr) = 1 THEN m[addr[1]]
    ELSE PointerAt(h, h[m[addr[1]]].Nodes, Tail(addr))

\* the Graph on the heap, as the Graph of the sequential model
Flat(h, r) ==
    [a \in AddrsFrom(h, r, << >>) |->
        LET n == h[PointerAt(h, r, a)]
        IN  [Key |-> n.Key, Dependency |-> n.Dependency, Leaf |-> n.Leaf]]

\* two goroutines call graph.Insert with different identifiers
ParFork(d1, d2) ==
    /\ ~fork.on /\ d1.Import /= d2.Import
    /\ \A p \in Procs : proc[p].pc \in {"idle", "done"}
    /\ proc' = [p \in Procs |->
                   LET d == IF p = 1 THEN d1 ELSE d2
                   IN  [dep |-> d, keys |-> Split(d.Import), d |-> 1,
                        chain |-> << >>, pc |-> "lookup"]]
    /\ fork' = [on |-> TRUE, base |-> Flat(heap, root), crashed |-> FALSE]
    /\ UNCHANGED <<heap, root, gvars, rvars>>

\* deepInsert, lines 50-55: node, found := nodes[keys[0]], a new Node when not
\* found; then the last key, or the recursive call
ParLookup(p) ==
    /\ proc[p].pc = "lookup"
    /\ LET m == MapOf(MapOwner(p))
           key == proc[p].keys[proc[p].d]
           found == key \in DOMAIN m
           fresh == Cardinality(DOMAIN heap) + 1
           node == IF found THEN m[key] ELSE fresh
           last == proc[p].d = Len(proc[p].keys)
       IN  /\ heap' = IF found THEN heap ELSE Record(heap, fresh, HeapNode(key))
           /\ proc' = [proc EXCEPT ![p].chain = Append(@, node),
                                   ![p].d = IF last THEN @ ELSE @ + 1,
                                   ![p].pc = IF last THEN "dependency" ELSE "lookup"]
    /\ UNCHANGED <<root, fork, gvars, rvars>>

\* deepInsert, line 57: node.Dependency = dependency
ParSetDependency(p) ==
    /\ proc[p].pc = "dependency"
    /\ heap' = [heap EXCEPT ![proc[p].chain[proc[p].d]].Dependency = proc[p].dep]
    /\ proc' = [proc EXCEPT ![p].pc = "leaf"]
    /\ UNCHANGED <<root, fork, gvars, rvars>>

\* deepInsert, line 58: node.Leaf = true, and the return of the node
ParSetLeaf(p) ==
    /\ proc[p].pc = "leaf"
    /\ heap' = [heap EXCEPT ![proc[p].chain[proc[p].d]].Leaf = TRUE]
    /\ proc' = [proc EXCEPT ![p].pc = "link"]
    /\ UNCHANGED <<root, fork, gvars, rvars>>

\* the caller stores the node returned: node.Nodes[newKeys[0]] = ... (line 60)
\* or graph.Nodes[keys[0]] = ... (line 26)
ParLink(p) ==
    /\ proc[p].pc = "link"
    /\ LET owner == MapOwner(p)
           key == proc[p].keys[proc[p].d]
           node == proc[p].chain[proc[p].d]
       IN  /\ IF owner = 0
              THEN root' = Record(root, key, node) /\ heap' = heap
              ELSE /\ heap' = [heap EXCEPT ![owner].Nodes = Record(@, key, node)]
                   /\ root' = root
           /\ proc' = [proc EXCEPT ![p].d = IF @ = 1 THEN @ ELSE @ - 1,
                                   ![p].pc = IF proc[p].d = 1 THEN "done" ELSE "link"]
    /\ UNCHANGED <<fork, gvars, rvars>>

\* the map a goroutine is about to read or write, and whether it writes
Access(p) ==
    IF proc[p].pc \in {"lookup", "link"}
    THEN [any |-> TRUE, map |-> MapOwner(p), write |-> proc[p].pc = "link"]
    ELSE [any |-> FALSE, map |-> 0, write |-> FALSE]

\* two goroutines are in the same map at once, one of them writing: the Go
\* runtime may stop the program (fatal error: concurrent map writes, or
\* concurrent map read and map write)
ParFatal ==
    /\ fork.on /\ ~fork.crashed
    /\ Access(1).any /\ Access(2).any
    /\ Access(1).map = Access(2).map
    /\ Access(1).write \/ Access(2).write
    /\ fork' = [fork EXCEPT !.crashed = TRUE]
    /\ proc' = [p \in Procs |-> [proc[p] EXCEPT !.pc = "fatal"]]
    /\ UNCHANGED <<heap, root, gvars, rvars>>

NextPar ==
    \/ \E d \in ParDeps : ParSolo(d)
    \/ \E d1, d2 \in ParDeps : ParFork(d1, d2)
    \/ \E p \in Procs : ParLookup(p)
    \/ \E p \in Procs : ParSetDependency(p)
    \/ \E p \in Procs : ParSetLeaf(p)
    \/ \E p \in Procs : ParLink(p)
    \/ ParFatal

SpecPar == InitGraph /\ [][NextPar]_vars

\* both Inserts started together have returned
ParDone == fork.on /\ \A p \in Procs : proc[p].pc = "done"

\* the one Insert that ran alone left the Graph that Insert computes
ParSoloAgrees ==
    (~fork.on /\ proc[1].pc = "done") => Flat(heap, root) = Insert(NewGraph, proc[1].dep)

\* C15: two Inserts of different identifiers, run statement by statement in
\* any interleaving, both return and leave the Graph that running one after
\* the other leaves, in either order: both identifiers are leaves, each with
\* its own Dep, and the program is not stopped.
C15_InterleavedInsertsCommute ==
    /\ ~fork.crashed
    /\ ParDone =>
           /\ Flat(heap, root) = Insert(Insert(fork.base, proc[1].dep), proc[2].dep)
           /\ Flat(heap, root) = Insert(Insert(fork.base, proc[2].dep), proc[1].dep)
           /\ \A p \in Procs :
                  /\ proc[p].keys \in DOMAIN Flat(heap, root)
                  /\ Flat(heap, root)[proc[p].keys].Leaf
                  /\ Flat(heap, root)[proc[p].keys].Dependency = proc[p].dep

\* C15, without the stop by the runtime: whenever both Inserts return, the
\* Graph is the one that running them one after the other leaves.
C15_NoInsertLost ==
    ParDone =>
        Flat(heap, root) = Insert(Insert(fork.base, proc[1].dep), proc[2].dep)

(* ------------------------------- a run -------------------------------- *)

Init == InitGraph

\* os.Exit(code) after `errs` validation errors were printed
Exit(code, how, errs) == [code |-> code % 256, how |-> how, errs |-> errs]


Wrote == \E k \in 1..Len(log) : log[k].ev = "WriteChecksum"

\* the process starts: a first run, or the next one after an exit, on any
\* declaration file; the marker and the vendor workspace are what was left
StartRun(f) ==
    /\ pc \in {"idle", "exit"}
    /\ pc' = "main"
    /\ decl' = Decls[f]
    /\ graph' = NewGraph
    /\ deps' = NoDeps
    /\ stack' = << >>
    /\ modified' = Unset
    /\ log' = << >>
    /\ exit' = Running
    /\ start' = [marker |-> marker,
                 prev |-> IF exit.how = "ok" /\ Wrote THEN decl.file ELSE 0,
                 link |-> Decls[f].repo \in vendor]
    /\ UNCHANGED <<marker, vendor, inserted, op, nIns, heap, root, proc, fork>>

Ends(code, how) ==
    /\ pc' = "exit"
    /\ exit' = Exit(code, how, 0)

\* failf(err.Error()) with the error of a Dep.Validate
EndsWithError ==
    /\ pc' = "exit"
    /\ exit' = Exit(1, "load", 1)

\* failWith(errors), len(errors) > 0
EndsWithErrors(errors) ==
    /\ pc' = "exit"
    /\ exit' = Exit(Len(errors), "validation", Len(errors))

\* main, lines 36-39: gopack version
MainVersion ==
    /\ pc = "main"
    /\ Ends(0, "version")
    /\ UNCHANGED <<graph, decl, marker, vendor, deps, stack, modified, log, start,
                   inserted, op, nIns, heap, root, proc, fork>>

\* main, lines 42-47: setupEnv and AnalyzeSourceTree, which may fail
MainSetup(ok) ==
    /\ pc = "main"
    /\ IF ok THEN pc' = "load" /\ exit' = exit ELSE Ends(1, "setup")
    /\ UNCHANGED <<graph, decl, marker, vendor, deps, stack, modified, log, start,
                   inserted, op, nIns, heap, root, proc, fork>>

\* a Config.InitRepo that makes the link and inserts nothing
InitRepo_NoInsert(repo, g) == g

\* Config.InitRepo(importGraph), lines 64-65: the self Dep
InitRepo(repo, g) == IF repo /= << >> THEN Insert(g, NewDependency(repo)) ELSE g

\* loadConfiguration, lines 89-91: NewGraph, NewConfig, InitRepo.  os.Symlink
\* finds the link there (which is no error), or makes it, or fails: linked
LoadConfiguration(linked) ==
    /\ pc = "load"
    /\ IF ~decl.ok
       THEN /\ Ends(1, "config")
            /\ UNCHANGED <<graph, vendor>>
       ELSE IF decl.repo /= << >> /\ decl.repo \notin vendor /\ ~linked
       THEN /\ Ends(1, "config")
            /\ UNCHANGED <<graph, vendor>>
       ELSE /\ graph' = InitRepo(decl.repo, NewGraph)
            /\ vendor' = IF decl.repo /= << >> THEN vendor \cup {decl.repo} ELSE vendor
            /\ pc' = "model"
            /\ exit' = exit
    /\ UNCHANGED <<decl, marker, deps, stack, modified, log, start, inserted, op, nIns, heap, root, proc, fork>>

\* loadConfiguration, lines 93-97: LoadDependencyModel on the Graph of the run
LoadModel ==
    /\ pc = "model"
    /\ LET r == LoadDependencyModel(decl, graph, marker, vendor, log, << >>)
       IN  /\ graph' = r.g
           /\ vendor' = r.vend
           /\ log' = r.log
           /\ deps' = r.deps
           /\ modified' = IF TableLen(decl.deps) + TableLen(decl.devdeps) = 0
                          THEN Unset
                          ELSE [set |-> TRUE, val |-> modifiedChecksum(decl, marker)]
           /\ CASE r.res = "ok" -> pc' = "validate" /\ exit' = exit
                [] r.res = "nil" -> pc' = "dispatch" /\ exit' = exit
                [] r.res = "err" -> EndsWithError
                [] r.res = "panic" -> Ends(2, "panic")
    /\ UNCHANGED <<decl, marker, stack, start, inserted, op, nIns, heap, root, proc, fork>>

\* a loadDependencies that writes the checksum before the traversal
Validate_WritesFirst ==
    /\ pc = "validate"
    /\ LET errors == DependenciesValidate(deps)
       IN  /\ log' = Append(log, Event("Validated", << >>, << >>))
           /\ IF Len(errors) > 0
              THEN /\ EndsWithErrors(errors)
                   /\ stack' = stack
                   /\ marker' = marker
              ELSE /\ pc' = "visit"
                   /\ exit' = exit
                   /\ stack' = <<Frame(deps.DepList, << >>)>>
                   /\ marker' = File(checksum(decl))
    /\ UNCHANGED <<graph, decl, vendor, deps, modified, start, inserted, op, nIns, heap, root, proc, fork>>

\* loadDependencies, line 80: failWith(dependencies.Validate(p))
Validate ==
    /\ pc = "validate"
    /\ LET errors == DependenciesValidate(deps)
       IN  /\ log' = Append(log, Event("Validated", << >>, << >>))
           /\ IF Len(errors) > 0
              THEN /\ EndsWithErrors(errors)
                   /\ stack' = stack
              ELSE /\ pc' = "visit"
                   /\ exit' = exit
                   /\ stack' = <<Frame(deps.DepList, << >>)>>
    /\ UNCHANGED <<graph, decl, marker, vendor, deps, modified, start, inserted, op, nIns, heap, root, proc, fork>>

Top == stack[Len(stack)]

Cur == Top.list[Top.i]

CurPath == Append(Top.path, Top.i)

\* the traversal goes on, or loadTransitiveDependencies has returned to
\* loadDependencies
Resume(stk) ==
    /\ stack' = stk
    /\ pc' = IF Len(stk) = 0 THEN "write" ELSE "visit"
    /\ exit' = exit

\* a routine that keeps a visited set and skips a Dep it has seen in this run
DepGet_SkipVisited(ok) ==
    /\ pc = "visit" /\ Top.phase = "get"
    /\ IF \E k \in 1..Len(log) : log[k].ev = "Get" /\ log[k].import = Cur.Import
       THEN log' = log /\ Resume(Advance(stack))
       ELSE /\ log' = Append(log, Event("Get", Cur.Import, CurPath))
            /\ IF ok THEN Resume(Continue(stack, AfterGet(Cur)))
               ELSE Ends(1, "retrieval") /\ stack' = stack
    /\ UNCHANGED <<graph, decl, marker, vendor, deps, modified, start, inserted, op, nIns, heap, root, proc, fork>>

\* the routine, lines 113-114: dep.Get(), which may fail
DepGet(ok) ==
    /\ pc = "visit" /\ Top.phase = "get"
    /\ log' = Append(log, Event("Get", Cur.Import, CurPath))
    /\ IF ok THEN Resume(Continue(stack, AfterGet(Cur)))
       ELSE Ends(1, "retrieval") /\ stack' = stack
    /\ UNCHANGED <<graph, decl, marker, vendor, deps, modified, start, inserted, op, nIns, heap, root, proc, fork>>

\* the routine, lines 116-119: dep.switchToBranchOrTag(), which may fail
DepCheckout(ok) ==
    /\ pc = "visit" /\ Top.phase = "checkout"
    /\ log' = Append(log, Event("checkout", Cur.Import, CurPath))
    /\ IF ok THEN Resume(Continue(stack, AfterCheckout(Cur)))
       ELSE Ends(1, "retrieval") /\ stack' = stack
    /\ UNCHANGED <<graph, decl, marker, vendor, deps, modified, start, inserted, op, nIns, heap, root, proc, fork>>

\* a routine that loads the nested declaration on a Graph of its own
DepLoad_OwnGraph ==
    /\ pc = "visit" /\ Top.phase = "load"
    /\ Len(stack) < MaxDepth
    /\ LET r == LoadTransitiveDeps(Cur, NewGraph, marker, vendor,
                                   Append(log, Event("load", Cur.Import, CurPath)), CurPath)
       IN  /\ graph' = graph
           /\ vendor' = r.vend
           /\ log' = r.log
           /\ CASE r.res = "ok" -> Resume(Append(stack, Frame(r.deps.DepList, CurPath)))
                [] r.res = "nil" -> Resume(Advance(stack))
                [] r.res = "err" -> Ends(1, "nested") /\ stack' = stack
                [] r.res = "panic" -> Ends(2, "panic") /\ stack' = stack
    /\ UNCHANGED <<decl, marker, deps, modified, start, inserted, op, nIns, heap, root, proc, fork>>

\* a routine that recurses into the set it is visiting, not the nested one
DepLoad_RecursesOnSelf ==
    /\ pc = "visit" /\ Top.phase = "load"
    /\ Len(stack) < MaxDepth
    /\ LET r == LoadTransitiveDeps(Cur, graph, marker, vendor,
                                   Append(log, Event("load", Cur.Import, CurPath)), CurPath)
       IN  /\ graph' = r.g
           /\ vendor' = r.vend
           /\ log' = r.log
           /\ CASE r.res = "ok" -> Resume(Append(stack, Frame(Top.list, CurPath)))
                [] r.res = "nil" -> Resume(Advance(stack))
                [] r.res = "err" -> Ends(1, "nested") /\ stack' = stack
                [] r.res = "panic" -> Ends(2, "panic") /\ stack' = stack
    /\ UNCHANGED <<decl, marker, deps, modified, start, inserted, op, nIns, heap, root, proc, fork>>

\* the routine, lines 121-129: dep.LoadTransitiveDeps and the recursive call
DepLoad ==
    /\ pc = "visit" /\ Top.phase = "load"
    /\ Len(stack) < MaxDepth
    /\ LET r == LoadTransitiveDeps(Cur, graph, marker, vendor,
                                   Append(log, Event("load", Cur.Import, CurPath)), CurPath)
       IN  /\ graph' = r.g
           /\ vendor' = r.vend
           /\ log' = r.log
           /\ CASE r.res = "ok" -> Resume(Append(stack, Frame(r.deps.DepList, CurPath)))
                [] r.res = "nil" -> Resume(Advance(stack))
                [] r.res = "err" -> Ends(1, "nested") /\ stack' = stack
                [] r.res = "panic" -> Ends(2, "panic") /\ stack' = stack
    /\ UNCHANGED <<decl, marker, deps, modified, start, inserted, op, nIns, heap, root, proc, fork>>

\* a WriteChecksum that writes the digest without the hex encoding
WriteChecksum_Raw(ok, truncated) ==
    /\ pc = "write"
    /\ IF ok
       THEN /\ marker' = File(RawString(Md5(decl.file)))
            /\ log' = Append(log, Event("WriteChecksum", << >>, << >>))
            /\ pc' = "dispatch"
            /\ exit' = exit
       ELSE /\ marker' = IF truncated THEN File(<< >>) ELSE marker
            /\ log' = log
            /\ Ends(1, "write")
    /\ UNCHANGED <<graph, decl, vendor, deps, stack, modified, start, inserted, op, nIns, heap, root, proc, fork>>

\* Config.WriteChecksum; a failed write may have truncated the file
WriteChecksum(ok, truncated) ==
    /\ pc = "write"
    /\ IF ok
       THEN /\ marker' = File(checksum(decl))
            /\ log' = Append(log, Event("WriteChecksum", << >>, << >>))
            /\ pc' = "dispatch"
            /\ exit' = exit
       ELSE /\ marker' = IF truncated THEN File(<< >>) ELSE marker
            /\ log' = log
            /\ Ends(1, "write")
    /\ UNCHANGED <<graph, decl, vendor, deps, stack, modified, start, inserted, op, nIns, heap, root, proc, fork>>

\* main, lines 51-53: no Dependencies at all
MainNoDeps ==
    /\ pc = "dispatch" /\ deps = NoDeps
    /\ Ends(1, "nodeps")
    /\ UNCHANGED <<graph, decl, marker, vendor, deps, stack, modified, log, start,
                   inserted, op, nIns, heap, root, proc, fork>>

Actions == {"dependencytree", "stats", "installdeps", "build"}

\* main, lines 55-73: the action; the go command may fail
MainDispatch(action, ok) ==
    /\ pc = "dispatch" /\ deps /= NoDeps
    /\ log' = Append(log, Event(action, << >>, << >>))
    /\ IF action \in {"dependencytree", "stats", "installdeps"} \/ ok
       THEN Ends(0, "ok")
       ELSE Ends(1, "action")
    /\ UNCHANGED <<graph, decl, marker, vendor, deps, stack, modified, start,
                   inserted, op, nIns, heap, root, proc, fork>>

Next ==
    \/ \E f \in 1..Len(Decls) : StartRun(f)
    \/ MainVersion
    \/ \E ok \in BOOLEAN : MainSetup(ok)
    \/ \E linked \in BOOLEAN : LoadConfiguration(linked)
    \/ LoadModel
    \/ Validate
    \/ \E ok \in BOOLEAN : DepGet(ok)
    \/ \E ok \in BOOLEAN : DepCheckout(ok)
    \/ DepLoad
    \/ \E ok, truncated \in BOOLEAN : WriteChecksum(ok, truncated)
    \/ MainNoDeps
    \/ \E a \in Actions, ok \in BOOLEAN : MainDispatch(a, ok)

Spec == Init /\ [][Next]_vars

\* a step of a process that has started: it runs until it exits
Proceed ==
    \/ MainVersion
    \/ \E ok \in BOOLEAN : MainSetup(ok)
    \/ \E linked \in BOOLEAN : LoadConfiguration(linked)
    \/ LoadModel
    \/ Validate
    \/ \E ok \in BOOLEAN : DepGet(ok)
    \/ \E ok \in BOOLEAN : DepCheckout(ok)
    \/ DepLoad
    \/ \E ok, truncated \in BOOLEAN : WriteChecksum(ok, truncated)
    \/ MainNoDeps
    \/ \E a \in Actions, ok \in BOOLEAN : MainDispatch(a, ok)

\* the process is started once, in the workspace of a first run
StartOnce(f) == pc = "idle" /\ StartRun(f)

NextLive ==
    \/ \E f \in 1..Len(Decls) : StartOnce(f)
    \/ Proceed

\* one run of the program, going on until the process exits
SpecLive == Init /\ [][NextLive]_vars /\ WF_vars(Proceed)

(* --------------------------- run properties --------------------------- *)

Leaves(g) == {p \in DOMAIN g : g[p].Leaf}

EventsAt(evs) == {k \in 1..Len(log) : log[k].ev \in evs}

\* the entries of a declaration in slot order: main, then dev
EntriesOf(d) == d.deps.entries \o d.devdeps.entries

\* whether an entry declares a Dep that Dep.Validate rejects, or none at all
Invalid(e) == ~e.hasImport \/ DepValidate(DepOf(e)) /= << >>

InvalidCount(d) == Cardinality({i \in 1..Len(EntriesOf(d)) : Invalid(EntriesOf(d)[i])})

C4_ValidationBeforeAnyFetch ==
    /\ \A k \in EventsAt({"Fetch", "retrieve"}) :
           \E j \in EventsAt({"Validated"}) : j < k
    /\ (pc = "exit" /\ exit.how \notin {"version", "setup", "config"}
            /\ InvalidCount(decl) > 0)
           => /\ exit.how = "validation"
              /\ EventsAt({"retrieve"}) = {}

\* C8: a declaration of N Deps (every entry has its import key, so that each
\* is built into a Dep) of which k are invalid, 0 < k < N, ends the run with
\* exactly k validation errors reported, wherever the invalid ones stand.
C8_EveryInvalidDepReported ==
    (pc = "exit" /\ exit.how \notin {"version", "setup", "config"}
        /\ \A i \in 1..Len(EntriesOf(decl)) : EntriesOf(decl)[i].hasImport
        /\ 0 < InvalidCount(decl) /\ InvalidCount(decl) < Len(EntriesOf(decl)))
        => exit.errs = InvalidCount(decl)

\* C10: the exit status is 0 when the run succeeds, the number of validation
\* errors when validation fails, and 1 for every other fatal error.
C10_ExitStatus ==
    pc = "exit" =>
        /\ exit.how \in {"ok", "version"} => exit.code = 0
        /\ exit.how = "validation" => exit.code = exit.errs /\ exit.errs > 0
        /\ exit.how \notin {"ok", "version", "validation"} => exit.code = 1

VisitEvents == {"Get", "checkout", "load"}

Rank(ev) == CASE ev = "Get" -> 1 [] ev = "checkout" -> 2 [] ev = "load" -> 3

\* p comes strictly before q in depth-first pre-order: a proper ancestor, or
\* an earlier sibling (or a descendant of one) where the two part
PreBefore(p, q) ==
    \/ IsStrictPrefix(p, q)
    \/ \E i \in 1..Len(p) :
          /\ i <= Len(q)
          /\ SubSeq(p, 1, i - 1) = SubSeq(q, 1, i - 1)
          /\ p[i] < q[i]

RECURSIVE EntryAt(_, _)
\* the declared entry at a place of the forest: path[1] is a slot of d, the
\* rest a place in the declaration that entry's dependency carries
EntryAt(d, path) ==
    LET e == EntriesOf(d)[path[1]]
    IN  IF Len(path) = 1 THEN e ELSE EntryAt(NestedDecl(e.import), Tail(path))

RECURSIVE PlacesFrom(_, _)
\* every place of the forest under declaration d, reached along prefix
PlacesFrom(d, prefix) ==
    UNION { {Append(prefix, i)} \cup
            (IF NestedDecl(EntriesOf(d)[i].import) /= NoDecl
             THEN PlacesFrom(NestedDecl(EntriesOf(d)[i].import), Append(prefix, i))
             ELSE {})
          : i \in 1..Len(EntriesOf(d)) }

Places == PlacesFrom(decl, << >>)

C6_ModifiedChecksum ==
    modified.set =>
        /\ ~start.marker.exists => modified.val
        /\ (start.marker.exists /\ start.marker.data /= EncodeToString(Md5(decl.file)))
               => modified.val
        /\ start.prev = decl.file => ~modified.val

\* a second run on the unchanged declaration, after a first one that found no
\* marker, wrote it and exited 0
C6_Witness ==
    /\ modified.set /\ ~modified.val
    /\ start.prev = decl.file
    /\ start.marker = File(checksum(decl))

\* the place whose declaration names the entry at place p
ParentOf(p) == SubSeq(p, 1, Len(p) - 1)

\* C11: once the run has written the checksum, every Dep of the forest, top
\* level and nested alike, was fetched when its declaration was loaded and
\* visited by the traversal, both before WriteChecksum, and the Graph of the
\* run holds a leaf at its identifier with a Dep of that identifier; Search of
\* the identifier returns a leaf, at the identifier or at a prefix of it.
C11_GraphHoldsEveryVisitedDep ==
    Wrote =>
        \A p \in Places :
            LET i == EntryAt(decl, p).import
                w == CHOOSE k \in EventsAt({"WriteChecksum"}) : TRUE
            IN  /\ \E k \in EventsAt({"Fetch"}) :
                      /\ k < w /\ log[k].import = i /\ log[k].path = ParentOf(p)
                      /\ \E j \in EventsAt({"Get"}) :
                            k < j /\ j < w /\ log[j].import = i /\ log[j].path = p
                /\ Split(i) \in Leaves(graph)
                /\ graph[Split(i)].Dependency.Import = i
                /\ Search(graph, i) /= NoNode
                /\ Search(graph, i) \in Leaves(graph)
                /\ IsPrefix(Search(graph, i), Split(i))

\* a run wrote the checksum after a traversal in which a top-level Dep carried
\* a declaration naming another Dep, both found by Search at their own leaves
C11_Witness ==
    /\ Wrote /\ pc \in {"dispatch", "exit"}
    /\ \E p \in Places :
          /\ Len(p) = 2
          /\ EntryAt(decl, p).import /= EntryAt(decl, ParentOf(p)).import
          /\ Search(graph, EntryAt(decl, p).import) = Split(EntryAt(decl, p).import)
          /\ Search(graph, EntryAt(decl, ParentOf(p)).import)
                 = Split(EntryAt(decl, ParentOf(p)).import)

\* the queries at or below identifier r
SubPaths(r) == {q \in Queries : IsPrefix(Split(r), Split(q))}

\* C12: when the project declares its identifier R, the Graph that InitRepo
\* leaves holds the self Dep at the leaf of R, and Search of R and of every
\* path below R returns that leaf; a self link that is already there does not
\* fail the run, and InitRepo applied again to the Graph of the run, at any
\* later point, changes neither its nodes nor its leaves.  When no identifier
\* is declared InitRepo leaves the new Graph empty.
C12_InitRepoSelfDep ==
    /\ (pc = "model" /\ decl.repo /= << >>) =>
           /\ Split(decl.repo) \in Leaves(graph)
           /\ graph[Split(decl.repo)].Dependency = NewDependency(decl.repo)
           /\ \A q \in SubPaths(decl.repo) : Search(graph, q) = Split(decl.repo)
           /\ InitRepo(decl.repo, graph) = graph
    /\ (pc \in {"model", "validate", "visit", "write", "dispatch"} /\ decl.repo /= << >>) =>
           /\ DOMAIN InitRepo(decl.repo, graph) = DOMAIN graph
           /\ Leaves(InitRepo(decl.repo, graph)) = Leaves(graph)
    /\ (pc = "model" /\ decl.repo = << >>) => graph = NewGraph
    /\ (pc = "exit" /\ exit.how = "config" /\ decl.ok) => ~start.link

\* InitRepo has run for a two-segment identifier in a run that found the self
\* link of an earlier run, and paths below the identifier resolve to its leaf
C12_Witness ==
    /\ pc = "model" /\ decl.repo /= << >>
    /\ start.link
    /\ Len(Split(decl.repo)) = 2
    /\ Cardinality(SubPaths(decl.repo)) >= 3
    /\ \A q \in SubPaths(decl.repo) : graph[Search(graph, q)].Dependency.Import = decl.repo

\* the places of the forest that name identifier i
PlacesOf(i) == {p \in Places : EntryAt(decl, p).import = i}

\* the events of a kind that concern identifier i
EventsOf(ev, i) == {k \in EventsAt({ev}) : log[k].import = i}

ForestImports == {EntryAt(decl, p).import : p \in Places}

\* C13: a completed traversal has visited every dependency once for every
\* place of the forest that names it: as many Fetch and Get steps as places,
\* as many checkouts as places that declare one, as many nested loads as
\* places (the dependency carrying a declaration), each at a different place.
C13_VisitedOncePerPath ==
    /\ \A j, k \in EventsAt(VisitEvents) :
           (j /= k /\ log[j].ev = log[k].ev) => log[j].path /= log[k].path
    /\ (pc \in {"write", "dispatch"} /\ deps /= NoDeps) =>
           \A i \in ForestImports :
               /\ Cardinality(EventsOf("Get", i)) = Cardinality(PlacesOf(i))
               /\ Cardinality(EventsOf("Fetch", i)) = Cardinality(PlacesOf(i))
               /\ Cardinality(EventsOf("checkout", i)) =
                      Cardinality({p \in PlacesOf(i) : EntryAt(decl, p).checkout /= ""})
               /\ Cardinality(EventsOf("load", i)) =
                      IF NestedDecl(i) /= NoDecl THEN Cardinality(PlacesOf(i)) ELSE 0

\* a completed traversal reached one dependency through two different parents
\* and another one along three paths, and visited them two and three times
C13_Witness ==
    /\ pc = "dispatch" /\ deps /= NoDeps
    /\ \E i \in ForestImports :
          /\ Cardinality(EventsOf("Get", i)) = 2
          /\ Cardinality(EventsOf("load", i)) = 2
          /\ \E p, q \in PlacesOf(i) : ParentOf(p) /= ParentOf(q)
    /\ \E i \in ForestImports :
          /\ Cardinality(EventsOf("Get", i)) = 3
          /\ Cardinality(EventsOf("checkout", i)) = 3

\* LoadDependencyModel was called on the project's declaration in this run
Loaded ==
    /\ pc \notin {"idle", "main", "load", "model"}
    /\ ~(pc = "exit" /\ exit.how \in {"version", "setup", "config"})

\* the set has one filled slot for every entry, in the order main, then dev
SlotsFilled(ds, d) ==
    /\ ds /= NoDeps
    /\ Len(ds.Keys) = Len(EntriesOf(d))
    /\ Len(ds.Imports) = Len(EntriesOf(d))
    /\ Len(ds.DepList) = Len(EntriesOf(d))
    /\ \A i \in 1..Len(EntriesOf(d)) :
           /\ ds.Keys[i] = EntriesOf(d)[i].key
           /\ ds.Imports[i] = EntriesOf(d)[i].import
           /\ ds.DepList[i] /= NoDep
           /\ ds.DepList[i] = Fetched(DepOf(EntriesOf(d)[i]))

\* C16: for every combination of present and absent main and dev tables with
\* at least one entry in all, every entry valid, LoadDependencyModel returns a
\* set with one filled slot for every entry, Keys, Imports and DepList
\* aligned, main entries first, each table in declaration order, and does not
\* crash; with no entry it returns no set and does not call modifiedChecksum.
C16_LoadDependencyModelSlots ==
    /\ (Loaded /\ Len(EntriesOf(decl)) >= 1 /\ InvalidCount(decl) = 0) =>
           /\ ~(exit.how = "panic" /\ EventsAt({"Validated"}) = {})
           /\ SlotsFilled(deps, decl)
    /\ (Loaded /\ Len(EntriesOf(decl)) = 0) => deps = NoDeps /\ ~modified.set

\* C16 for the declarations that have a main table
C16_SlotsWithMainTable ==
    (Loaded /\ Len(EntriesOf(decl)) >= 1 /\ InvalidCount(decl) = 0 /\ ~decl.deps.nil) =>
        SlotsFilled(deps, decl)

\* a retrieval, a checkout or the load of a nested declaration failed
TraversalFailed == pc = "exit" /\ exit.how \in {"retrieval", "nested", "panic"}

\* C18: over the forest of nested declarations, in which no dependency depends
\* on itself, a traversal that has started returns to loadDependencies, which
\* then calls WriteChecksum, unless a retrieval, a checkout or a nested load
\* fails; and WriteChecksum then writes the marker or fails.
C18_TraversalTerminates ==
    /\ (pc = "visit") ~> (pc = "write" \/ TraversalFailed)
    /\ (pc = "write") ~> (Wrote \/ (pc = "exit" /\ exit.how = "write"))

\* the traversal of a forest three levels deep, with a dependency named at
\* several places, has returned and WriteChecksum is about to be called
C18_Witness ==
    /\ pc = "write" /\ stack = << >>
    /\ Cardinality(EventsAt({"Get"})) = Cardinality(Places)
    /\ Cardinality(Places) >= 5
    /\ \E p \in Places : Len(p) = MaxDepth - 1

(* ------------------------- Graph properties --------------------------- *)

\* the segments of every identifier the properties speak of
SegsOf == [q \in Queries |-> Split(q)]

\* the inserted identifiers whose segments are a prefix of the segments of q
InsertedPrefixes(q) == {j \in DOMAIN inserted : IsPrefix(SegsOf[j], SegsOf[q])}

\* the shortest of them
Owner(q) ==
    CHOOSE j \in InsertedPrefixes(q) :
        \A k \in InsertedPrefixes(q) : Len(SegsOf[j]) <= Len(SegsOf[k])

\* Search(q) is the leaf of identifier i, holding the Dep last inserted under i
FindsLeafOf(q, i) ==
    /\ Search(graph, q) = SegsOf[i]
    /\ graph[SegsOf[i]].Leaf
    /\ graph[SegsOf[i]].Dependency = inserted[i]

\* C1 as stated: for every inserted identifier I, Search(I) returns the leaf
\* holding the Dep most recently inserted under I itself.
C1_SearchReturnsOwnDep ==
    \A i \in DOMAIN inserted : FindsLeafOf(i, i)

\* C1 amended: for every inserted identifier I, Search(I) returns the leaf of the
\* shortest inserted identifier whose segments are a prefix of I's, holding the
\* Dep most recently inserted under that identifier; it is I's own leaf when no
\* inserted identifier is a strict prefix of I.
C1_SearchReturnsShortestPrefixDep ==
    \A i \in DOMAIN inserted :
        /\ FindsLeafOf(i, Owner(i))
        /\ (InsertedPrefixes(i) = {i}) => FindsLeafOf(i, i)

\* an identifier was inserted twice with different Deps, beside another
\* identifier, and Search returns the later Dep
C1_Witness ==
    /\ op.name = "Insert"
    /\ op.old /= NoDep /\ op.old /= op.dep
    /\ Cardinality(DOMAIN inserted) >= 2
    /\ InsertedPrefixes(op.dep.Import) = {op.dep.Import}
    /\ graph[Search(graph, op.dep.Import)].Dependency = op.dep

\* C2 as stated: for every inserted identifier I1 and every identifier I2 that
\* extends I1 by further segments, Search(I2) returns I1's Dep.
C2_DescendantResolvesToLeaf ==
    \A i1 \in DOMAIN inserted : \A i2 \in Queries :
        IsStrictPrefix(SegsOf[i1], SegsOf[i2]) => FindsLeafOf(i2, i1)

\* C2 amended: for every inserted identifier I1 no strict prefix of which is
\* itself inserted, and every identifier I2 that extends I1 by further segments
\* (inserted or not), Search(I2) returns I1's Dep.
C2_DescendantResolvesToFirstLeaf ==
    \A i1 \in DOMAIN inserted :
        InsertedPrefixes(i1) = {i1} =>
            \A i2 \in Queries :
                IsStrictPrefix(SegsOf[i1], SegsOf[i2]) => FindsLeafOf(i2, i1)

\* a query two segments below an inserted leaf, and an inserted identifier below
\* another one, both resolve to the upper leaf
C2_Witness ==
    \E i1 \in DOMAIN inserted :
        /\ InsertedPrefixes(i1) = {i1}
        /\ \E i2 \in Queries \ DOMAIN inserted :
              Len(SegsOf[i2]) = Len(SegsOf[i1]) + 2 /\ Search(graph, i2) = SegsOf[i1]
        /\ \E i3 \in DOMAIN inserted :
              IsStrictPrefix(SegsOf[i1], SegsOf[i3]) /\ Search(graph, i3) = SegsOf[i1]

\* C7: re-inserting an identifier that is already a leaf replaces that leaf's
\* Dependency and leaves the set of nodes, the set of leaves and every other
\* node as they were.
C7_ReinsertFrame ==
    [][ \A d \in GraphDeps :
          ( /\ op'.name = "Insert" /\ op'.dep = d /\ nIns' = nIns + 1
            /\ SegsOf[d.Import] \in Leaves(graph) )
          => /\ DOMAIN graph' = DOMAIN graph
             /\ Leaves(graph') = Leaves(graph)
             /\ \A p \in DOMAIN graph : p /= SegsOf[d.Import] => graph'[p] = graph[p]
             /\ graph'[SegsOf[d.Import]] =
                    [graph[SegsOf[d.Import]] EXCEPT !.Dependency = d] ]_vars

\* a leaf that has a node below it and a leaf beside it was given a different Dep
C7_Witness ==
    /\ op.name = "Insert"
    /\ op.old /= NoDep /\ op.old /= op.dep
    /\ graph[SegsOf[op.dep.Import]].Dependency = op.dep
    /\ \E p \in DOMAIN graph : IsStrictPrefix(SegsOf[op.dep.Import], p)
    /\ Cardinality(Leaves(graph)) >= 2

\* C14: in every Graph reached by Insert calls, a node is a leaf if and only if
\* it holds a Dependency.
C14_LeafIffDependency ==
    \A p \in DOMAIN graph : graph[p].Leaf <=> graph[p].Dependency /= NoDep

\* a Graph with a leaf that has a leaf below it and an interior node that is
\* no leaf
C14_Witness ==
    /\ \E p, q \in Leaves(graph) : IsStrictPrefix(p, q)
    /\ \E p \in DOMAIN graph :
          /\ ~graph[p].Leaf /\ graph[p].Dependency = NoDep
          /\ \E q \in Leaves(graph) : IsStrictPrefix(p, q)

\* Search(q) returns a node of g, the segments of q being SegsOf[q]
Found(g, q) == SearchFrom(g, << >>, SegsOf[q]) /= NoNode

\* C17: the Graph only grows: an Insert removes no node and unmarks no leaf,
\* and every query for which Search returned a node before the Insert gets a
\* node after it.
C17_SearchStaysFound ==
    [][ /\ DOMAIN graph \subseteq DOMAIN graph'
        /\ Leaves(graph) \subseteq Leaves(graph')
        /\ \A q \in Queries : Found(graph, q) => Found(graph', q) ]_gvars

\* an identifier was inserted, then a shorter prefix of it: Search of the
\* identifier still returns a node, now the leaf of the prefix
C17_Witness ==
    /\ op.name = "Insert" /\ op.old = NoDep
    /\ \E q \in DOMAIN inserted :
          /\ IsStrictPrefix(SegsOf[op.dep.Import], SegsOf[q])
          /\ SegsOf[q] \in Leaves(graph)
          /\ Search(graph, q) = SegsOf[op.dep.Import]
          /\ graph[Search(graph, q)].Dependency /= inserted[q]

\* C9: Search returns no node for every query none of whose prefixes (the query
\* included) is an inserted identifier: an absent segment met before any leaf,
\* or the query exhausted on interior nodes.
C9_SearchMissIsNil ==
    \A q \in Queries : InsertedPrefixes(q) = {} => Search(graph, q) = NoNode

\* a non-empty Graph, one query that shares no first segment with it and one
\* that ends on an interior node
C9_Witness ==
    /\ \E q \in Queries :
          /\ <<SegsOf[q][1]>> \notin DOMAIN graph
          /\ Search(graph, q) = NoNode
    /\ \E q \in Queries :
          /\ SegsOf[q] \in DOMAIN graph
          /\ ~graph[SegsOf[q]].Leaf
          /\ Search(graph, q) = NoNode
    /\ Leaves(graph) /= {}

====
